---- MODULE Spec2Model ----
(***************************************************************************)
(* Model of src/main.py: the Warp+ key generator.  One process runs        *)
(* module import, then main(N): N iterations of generate_and_save_key over *)
(* one httpx client, each followed by apply_delay_if_needed.               *)
(*                                                                         *)
(* Strings are tuples of one-character strings, so that str.split and the  *)
(* f-string formatting of a list or an int are computed, not assumed.      *)
(* The remote API and the file system are the environment: every request   *)
(* may return or raise, every response field is drawn from a small set.    *)
(* GeneratedKeys.json is held as the decoded JSON value; every file state  *)
(* considered is absent or was written by save_key_to_file itself, so the  *)
(* rewritten text is never shorter than the text it overwrites.            *)
(***************************************************************************)
EXTENDS Integers, Sequences, FiniteSets, TLC

\* ------------------------------------------------------------------ bounds
MaxN == 3

\* ------------------------------------------------------- environment values
\* values of the KEYS environment variable: "" and "a,b"
KeysEnvValues == { <<>>, <<"a", ",", "b">> }

\* license strings the remote API hands out / echoes
Licenses == { <<"L", "1">>, <<"L", "2">> }

\* referral counts the remote API reports
ReferralCounts == {1}

\* quota values the remote API reports
Quotas == { 0, 3000 }

\* a record left in GeneratedKeys.json by an earlier run of the program
PriorRecord == [Quota |-> 3000, license |-> <<"L", "0">>]

\* contents of GeneratedKeys.json before the run (when it exists)
PriorFiles == { <<PriorRecord>> }

VARIABLES
    envSet,            \* KEYS is present in the environment
    KEYS,              \* its value
    keys,              \* module global `keys` (line 22)
    N,                 \* number_of_keys_to_generate
    pc,                \* position of the single thread of control
    i,                 \* loop variable of main
    client,            \* httpx client: "none", "open", "closed"
    user_id, initial_license, user_token,       \* locals of generate_and_save_key
    referral_id, referral_token,
    user_info,                                  \* decoded body of the GET response
    referral_count, final_license, warp_plus, quota,
    selected_key,                               \* local of swap_license_keys
    calls,             \* requests issued in the current iteration, in order
    failedStage,       \* stage whose error aborted the current iteration, or "none"
    saveResult,        \* what save_key_to_file did in the current iteration
    fileExists, fileData,                       \* GeneratedKeys.json
    priorExists, priorData,                     \* its state before the run
    appended,          \* key_info values successfully written, in order
    outcomes,          \* failedStage and saveResult of every finished iteration
    delays,            \* number of time.sleep(45) calls
    requestCount,      \* requests issued in the whole run
    deleteLog,         \* ids of the accounts a DELETE was issued for, in the whole run
    deleteStatus       \* status of the response a DELETE has just returned, else 0

locals == <<user_id, initial_license, user_token, referral_id, referral_token,
            user_info, referral_count, final_license, warp_plus, quota, selected_key>>
iter == <<calls, failedStage, saveResult>>
file == <<fileExists, fileData, appended>>
env == <<envSet, KEYS, N, priorExists, priorData>>
vars == <<env, keys, pc, i, client, locals, iter, file, outcomes, delays, requestCount, deleteLog, deleteStatus>>

\* ------------------------------------------------------------ pure helpers
\* str.split(sep) for a one-character separator: cur is the field being read
RECURSIVE SplitFrom(_, _, _)
SplitFrom(s, sep, cur) ==
    IF s = <<>> THEN <<cur>>
    ELSE IF Head(s) = sep THEN <<cur>> \o SplitFrom(Tail(s), sep, <<>>)
    ELSE SplitFrom(Tail(s), sep, Append(cur, Head(s)))

Split(s, sep) == SplitFrom(s, sep, <<>>)

\* repr() of a str without quotes or escapes in it
ReprStr(s) == <<"'">> \o s \o <<"'">>

RECURSIVE JoinRepr(_)
JoinRepr(lst) ==
    IF lst = <<>> THEN <<>>
    ELSE IF Len(lst) = 1 THEN ReprStr(lst[1])
    ELSE ReprStr(lst[1]) \o <<",", " ">> \o JoinRepr(Tail(lst))

\* f'{x}' for x a list of str
StrOfList(lst) == <<"[">> \o JoinRepr(lst) \o <<"]">>

Digit(d) == CASE d = 0 -> "0" [] d = 1 -> "1" [] d = 2 -> "2" [] d = 3 -> "3"
              [] d = 4 -> "4" [] d = 5 -> "5" [] d = 6 -> "6" [] d = 7 -> "7"
              [] d = 8 -> "8" [] d = 9 -> "9"

\* f'{n}' for an int n >= 0
RECURSIVE StrOfInt(_)
StrOfInt(n) == IF n < 10 THEN <<Digit(n)>> ELSE StrOfInt(n \div 10) \o <<Digit(n % 10)>>

\* ---------------------------------------------------------- remote API model
\* licenses a read of the account can report: one of the two values the
\* iteration has PUT to it, the original or the probe
ReadableLicenses(original, probe_key) == {original, StrOfList(probe_key)}

\* ids the registration endpoint assigns: unique per registration
PrimaryId(iteration) == 2 * iteration + 1
ReferralId(iteration) == 2 * iteration + 2
TokenFor(id) == <<"tok", id>>

NoAuth == <<>>
NoBody == <<>>
NoInfo == [referral_count |-> 0, license |-> <<>>, warp_plus |-> FALSE, quota |-> 0]

Bearer(token) == token
Request(verb, path, auth, body) == [verb |-> verb, path |-> path, auth |-> auth, body |-> body]

RegPath == <<"reg">>
UserPath(id) == <<"reg", id>>
AccountPath(id) == <<"reg", id, "account">>

\* statuses of the responses the remote API gives to a DELETE: deleted, or an
\* error response such as for an account that is already gone
DeleteStatuses == {200, 404}

\* variant: raise_for_status() is called on the response
ResponseRaisesOnError(status) == status >= 400

\* client.delete(...) at lines 127-130 and 220-222: the response is not bound
\* and its status is not looked at
ResponseRaises(status) == FALSE

\* ------------------------------------------------------- order of statements
\* variant: the referral account is deleted before it is linked
LinkerOrderDeleteFirst == <<"del_ref", "patch">>

\* add_referral_and_delete: PATCH, then DELETE
LinkerOrder == <<"patch", "del_ref">>

\* variant: the original license is written before the probe
SwapperOrderRevertFirst == <<"put_revert", "put_probe">>

\* swap_license_keys: PUT probe, then PUT revert
SwapperOrder == <<"put_probe", "put_revert">>

\* variant: the primary account is never deleted
StageOrderNoDispose == <<"reg_user", "reg_ref">> \o LinkerOrder \o SwapperOrder
                       \o <<"get", "decide">>

\* variant: the account is deleted before its state is read
StageOrderReadAfterDispose == <<"reg_user", "reg_ref">> \o LinkerOrder \o SwapperOrder
                              \o <<"del_user", "get", "decide">>

\* variant: the key is persisted before the primary account is deleted
StageOrderPersistBeforeDispose == <<"reg_user", "reg_ref">> \o LinkerOrder \o SwapperOrder
                                  \o <<"get", "decide", "del_user">>

\* generate_and_save_key: the try body
StageOrder == <<"reg_user", "reg_ref">> \o LinkerOrder \o SwapperOrder
              \o <<"get", "del_user", "decide">>

StageIndex(stage) == CHOOSE k \in 1..Len(StageOrder) : StageOrder[k] = stage
NextStage(stage) ==
    IF StageIndex(stage) = Len(StageOrder) THEN "pace" ELSE StageOrder[StageIndex(stage) + 1]

\* variant: the error is not caught and ends the batch
AfterExceptHalt == "done"

\* variant: the except clause deletes the primary account before going on
AfterExceptCleanup == "del_user"

\* variant: the except clause starts the iteration again
AfterExceptRetry == "reg_user"

\* where control goes from the except clause of generate_and_save_key
AfterExcept == "pace"

\* variant: an error inside save_key_to_file reaches the caller
AfterSaveReraise(result) == IF result = "error" THEN "except" ELSE NextStage("decide")

\* where control goes from lines 260-261: save_key_to_file catches its own
\* errors (lines 56-57), so the try body always runs to its end
AfterSave(result) == NextStage("decide")

\* ------------------------------------------------------------ pure decisions
\* variant: off by one, the last iteration sleeps too
NeedsDelayOffByOne(current_index, total_count) == current_index # total_count

\* apply_delay_if_needed: the condition of the sleep
NeedsDelay(current_index, total_count) == current_index # total_count - 1

\* variant: the quota is not looked at
EligibleIgnoringQuota(wp, q) == wp

\* generate_and_save_key line 260
Eligible(wp, q) == wp /\ q # 0

\* variant: the license captured at registration is written
KeyInfoInitialLicense(q, lic) == [Quota |-> q, license |-> initial_license]

\* variant: a third field is written
KeyInfoWithCount(q, lic) == [Quota |-> q, license |-> lic, referral_count |-> referral_count]

\* generate_and_save_key line 261: the dict handed to save_key_to_file
KeyInfo(q, lic) == [Quota |-> q, license |-> lic]

\* get_updated_user_info: the returned tuple
UserInfoTuple(info) == <<info.referral_count, info.license, info.warp_plus, info.quota>>

\* variant: the new record replaces the collection
JsonAppendOverwrite(data, key_info) == <<key_info>>

\* data.append(key_info)
JsonAppend(data, key_info) == Append(data, key_info)

\* points at which save_key_to_file can raise inside its try
FailPoints(exists) == {"none", "open_rw"} \cup (IF exists THEN {} ELSE {"open_w"})

\* save_key_to_file as a function of the file and of where (if anywhere) it raises
SaveKeyToFile(exists, data, key_info, fail) ==
    IF ~exists /\ fail = "open_w"
    THEN [exists |-> FALSE, data |-> data, result |-> "error"]
    ELSE LET created == IF exists THEN data ELSE <<>>
         IN IF fail = "open_rw"
            THEN [exists |-> TRUE, data |-> created, result |-> "error"]
            ELSE [exists |-> TRUE, data |-> JsonAppend(created, key_info), result |-> "saved"]

\* -------------------------------------------------------------------- Init
Init ==
    /\ envSet \in BOOLEAN
    /\ KEYS \in (IF envSet THEN KeysEnvValues ELSE {<<>>})
    /\ N \in 1..MaxN
    /\ priorExists \in BOOLEAN
    /\ priorData \in (IF priorExists THEN PriorFiles ELSE {<<>>})
    /\ fileExists = priorExists
    /\ fileData = priorData
    /\ appended = <<>>
    /\ keys = <<>>
    /\ pc = "import"
    /\ i = 0
    /\ client = "none"
    /\ user_id = 0 /\ initial_license = <<>> /\ user_token = <<>>
    /\ referral_id = 0 /\ referral_token = <<>>
    /\ user_info = NoInfo
    /\ referral_count = 0 /\ final_license = <<>> /\ warp_plus = FALSE /\ quota = 0
    /\ selected_key = <<>>
    /\ calls = <<>> /\ failedStage = "none" /\ saveResult = "none"
    /\ outcomes = <<>>
    /\ delays = 0
    /\ requestCount = 0
    /\ deleteLog = <<>>
    /\ deleteStatus = 0

\* ----------------------------------------------------------------- helpers
Issue(req) ==
    /\ calls' = Append(calls, req)
    /\ requestCount' = requestCount + 1
    /\ deleteLog' = IF req.verb = "DELETE" THEN Append(deleteLog, req.path[2]) ELSE deleteLog

\* variant: the error is recorded and the try body goes on
RaiseAndGoOn(stage) ==
    /\ pc' = NextStage(stage)
    /\ failedStage' = stage

\* an exception leaves the try body for the except clause
Raise(stage) ==
    /\ pc' = "except"
    /\ failedStage' = stage

Proceed(stage) ==
    /\ pc' = NextStage(stage)
    /\ failedStage' = failedStage

\* ----------------------------------------------------------------- actions
\* lines 20-22: load_dotenv(); keys = [os.getenv('KEYS').split(',')]
\* os.getenv returns None when KEYS is unset and None.split raises.
LoadModule ==
    /\ pc = "import"
    /\ IF envSet
       THEN /\ keys' = << Split(KEYS, ",") >>
            /\ pc' = "main"
       ELSE /\ keys' = keys
            /\ pc' = "crashed"
    /\ UNCHANGED <<env, i, client, locals, iter, file, outcomes, delays, requestCount, deleteLog, deleteStatus>>

\* lines 325-326: with create_http_client() as client
EnterClient ==
    /\ pc = "main"
    /\ client' = "open"
    /\ i' = 0
    /\ pc' = "loop"
    /\ UNCHANGED <<env, keys, locals, iter, file, outcomes, delays, requestCount, deleteLog, deleteStatus>>

\* lines 327-329: next value of range(N), entry into generate_and_save_key
LoopNext ==
    /\ pc = "loop"
    /\ i < N
    /\ pc' = StageOrder[1]
    /\ UNCHANGED <<env, keys, i, client, locals, iter, file, outcomes, delays, requestCount, deleteLog, deleteStatus>>

\* variant: the client is created without a with block and never closed
ExitClientLeak ==
    /\ pc = "loop"
    /\ i >= N
    /\ client' = client
    /\ pc' = "done"
    /\ UNCHANGED <<env, keys, i, locals, iter, file, outcomes, delays, requestCount, deleteLog, deleteStatus>>

\* range(N) exhausted: the with block exits and closes the client
ExitClient ==
    /\ pc = "loop"
    /\ i >= N
    /\ client' = "closed"
    /\ pc' = "done"
    /\ UNCHANGED <<env, keys, i, locals, iter, file, outcomes, delays, requestCount, deleteLog, deleteStatus>>

\* register_user, lines 83-86
RegisterUser ==
    /\ pc = "reg_user"
    /\ Issue(Request("POST", RegPath, NoAuth, NoBody))
    /\ \/ \E lic \in Licenses :
            /\ user_id' = PrimaryId(i)
            /\ initial_license' = lic
            /\ user_token' = TokenFor(PrimaryId(i))
            /\ Proceed("reg_user")
       \/ /\ Raise("reg_user")
          /\ UNCHANGED <<user_id, initial_license, user_token>>
    /\ UNCHANGED <<env, keys, i, client, referral_id, referral_token, user_info,
                   referral_count, final_license, warp_plus, quota, selected_key,
                   saveResult, file, outcomes, delays, deleteStatus>>

\* register_referral_user, lines 105-108
RegisterReferralUser ==
    /\ pc = "reg_ref"
    /\ Issue(Request("POST", RegPath, NoAuth, NoBody))
    /\ \/ /\ referral_id' = ReferralId(i)
          /\ referral_token' = TokenFor(ReferralId(i))
          /\ Proceed("reg_ref")
       \/ /\ Raise("reg_ref")
          /\ UNCHANGED <<referral_id, referral_token>>
    /\ UNCHANGED <<env, keys, i, client, user_id, initial_license, user_token, user_info,
                   referral_count, final_license, warp_plus, quota, selected_key,
                   saveResult, file, outcomes, delays, deleteStatus>>

\* add_referral_and_delete, lines 118-126: PATCH /reg/{user_id}
AddReferral ==
    /\ pc = "patch"
    /\ Issue(Request("PATCH", UserPath(user_id), Bearer(user_token),
                     <<"referrer", StrOfInt(referral_id)>>))
    /\ \/ Proceed("patch")
       \/ Raise("patch")
    /\ UNCHANGED <<env, keys, i, client, locals, saveResult, file, outcomes, delays, deleteStatus>>

\* add_referral_and_delete, lines 127-131: DELETE /reg/{referral_id}
DeleteReferral ==
    /\ pc = "del_ref"
    /\ Issue(Request("DELETE", UserPath(referral_id), Bearer(referral_token), NoBody))
    /\ \/ \E status \in DeleteStatuses :
            /\ deleteStatus' = status
            /\ IF ResponseRaises(status) THEN Raise("del_ref") ELSE Proceed("del_ref")
       \/ /\ deleteStatus' = 0
          /\ Raise("del_ref")
    /\ UNCHANGED <<env, keys, i, client, locals, saveResult, file, outcomes, delays>>

\* swap_license_keys, lines 149-157: random.choice(keys), PUT the chosen value
SwapProbe ==
    /\ pc = "put_probe"
    /\ IF keys = <<>>
       THEN \* random.choice of an empty sequence raises IndexError
            /\ Raise("put_probe")
            /\ UNCHANGED <<selected_key, calls, requestCount, deleteLog>>
       ELSE \E idx \in 1..Len(keys) :
            /\ selected_key' = keys[idx]
            /\ Issue(Request("PUT", AccountPath(user_id), Bearer(user_token),
                             <<"license", StrOfList(keys[idx])>>))
            /\ \/ Proceed("put_probe")
               \/ Raise("put_probe")
    /\ UNCHANGED <<env, keys, i, client, user_id, initial_license, user_token,
                   referral_id, referral_token, user_info, referral_count,
                   final_license, warp_plus, quota, saveResult, file, outcomes, delays>>
    /\ deleteStatus' = 0

\* swap_license_keys, lines 158-166: PUT the initial license
SwapRevert ==
    /\ pc = "put_revert"
    /\ Issue(Request("PUT", AccountPath(user_id), Bearer(user_token),
                     <<"license", initial_license>>))
    /\ \/ Proceed("put_revert")
       \/ Raise("put_revert")
    /\ UNCHANGED <<env, keys, i, client, locals, saveResult, file, outcomes, delays, deleteStatus>>

\* get_updated_user_info, lines 187-198, and the unpacking at lines 252-257
GetUpdatedUserInfo ==
    /\ pc = "get"
    /\ Issue(Request("GET", AccountPath(user_id), Bearer(user_token), NoBody))
    /\ \/ \E rc \in ReferralCounts, lic \in ReadableLicenses(initial_license, selected_key), wp \in BOOLEAN, q \in Quotas :
            LET info == [referral_count |-> rc, license |-> lic, warp_plus |-> wp, quota |-> q]
            IN /\ user_info' = info
               /\ referral_count' = UserInfoTuple(info)[1]
               /\ final_license' = UserInfoTuple(info)[2]
               /\ warp_plus' = UserInfoTuple(info)[3]
               /\ quota' = UserInfoTuple(info)[4]
               /\ Proceed("get")
       \/ /\ Raise("get")
          /\ UNCHANGED <<user_info, referral_count, final_license, warp_plus, quota>>
    /\ UNCHANGED <<env, keys, i, client, user_id, initial_license, user_token,
                   referral_id, referral_token, selected_key,
                   saveResult, file, outcomes, delays, deleteStatus>>

\* delete_user, lines 220-223
DeleteUser ==
    /\ pc = "del_user"
    /\ Issue(Request("DELETE", UserPath(user_id), Bearer(user_token), NoBody))
    /\ \/ \E status \in DeleteStatuses :
            /\ deleteStatus' = status
            /\ IF ResponseRaises(status) THEN Raise("del_user") ELSE Proceed("del_user")
       \/ /\ deleteStatus' = 0
          /\ Raise("del_user")
    /\ UNCHANGED <<env, keys, i, client, locals, saveResult, file, outcomes, delays>>

\* lines 260-261 with the whole of save_key_to_file (lines 44-57)
Decide ==
    /\ pc = "decide"
    /\ IF Eligible(warp_plus, quota)
       THEN \E fail \in FailPoints(fileExists) :
            LET r == SaveKeyToFile(fileExists, fileData, KeyInfo(quota, final_license), fail)
            IN /\ fileExists' = r.exists
               /\ fileData' = r.data
               /\ saveResult' = r.result
               /\ appended' = IF r.result = "saved"
                              THEN Append(appended, KeyInfo(quota, final_license))
                              ELSE appended
       ELSE /\ saveResult' = "skipped"
            /\ UNCHANGED file
    /\ pc' = AfterSave(saveResult')
    /\ failedStage' = IF AfterSave(saveResult') = "except" THEN "decide" ELSE failedStage
    /\ deleteStatus' = 0
    /\ UNCHANGED <<env, keys, i, client, locals, calls, outcomes, delays, requestCount, deleteLog>>

\* lines 263-264: except Exception: logging.error(...)
Except ==
    /\ pc = "except"
    /\ pc' = AfterExcept
    /\ UNCHANGED <<env, keys, i, client, locals, iter, file, outcomes, delays, requestCount, deleteLog, deleteStatus>>

\* generate_and_save_key has returned and its locals are gone; line 330 with
\* apply_delay_if_needed (lines 306-307), then the loop advances
ApplyDelay ==
    /\ pc = "pace"
    /\ delays' = IF NeedsDelay(i, N) THEN delays + 1 ELSE delays
    /\ outcomes' = Append(outcomes, [failed |-> failedStage, save |-> saveResult])
    /\ i' = i + 1
    /\ pc' = "loop"
    /\ user_id' = 0 /\ initial_license' = <<>> /\ user_token' = <<>>
    /\ referral_id' = 0 /\ referral_token' = <<>>
    /\ user_info' = NoInfo
    /\ referral_count' = 0 /\ final_license' = <<>> /\ warp_plus' = FALSE /\ quota' = 0
    /\ selected_key' = <<>>
    /\ calls' = <<>> /\ failedStage' = "none" /\ saveResult' = "none"
    /\ deleteStatus' = 0
    /\ UNCHANGED <<env, keys, client, file, requestCount, deleteLog>>

Next ==
    \/ LoadModule
    \/ EnterClient
    \/ LoopNext
    \/ ExitClient
    \/ RegisterUser
    \/ RegisterReferralUser
    \/ AddReferral
    \/ DeleteReferral
    \/ SwapProbe
    \/ SwapRevert
    \/ GetUpdatedUserInfo
    \/ DeleteUser
    \/ Decide
    \/ Except
    \/ ApplyDelay

Spec == Init /\ [][Next]_vars

\* ================================================================ properties
Last(seq) == seq[Len(seq)]
ReadEligible == user_info.warp_plus = TRUE /\ user_info.quota # 0
Finished(k) == k \in 1..Len(outcomes)

C2_PacingCount ==
    /\ delays = (IF Len(outcomes) < N THEN Len(outcomes) ELSE N - 1)
    /\ pc = "done" => delays = N - 1

C2_Witness ==
    /\ pc = "done" /\ N = 3 /\ delays = 2
    /\ outcomes[1].failed # "none"
    /\ outcomes[3].failed = "none"

C4_RecordHasOriginalLicense ==
    saveResult = "saved" =>
        /\ Last(fileData).license = initial_license
        /\ Last(fileData).Quota = user_info.quota

\* C4 amended: every appended record carries the license and the quota that the
\* state read of that iteration returned.
C4_RecordHasReadLicense ==
    saveResult = "saved" =>
        /\ Last(fileData).license = user_info.license
        /\ Last(fileData).Quota = user_info.quota

C4_Witness ==
    /\ saveResult = "saved"
    /\ user_info.license # initial_license
    /\ Last(fileData).license = user_info.license

\* C5 as stated: every record the run adds to the collection has exactly the
\* fields license and quota.
C5_FieldsLicenseQuota ==
    \A k \in (Len(priorData) + 1)..Len(fileData) :
        DOMAIN fileData[k] = {"license", "quota"}

\* C5 amended: every element of the collection has exactly the fields license
\* and Quota, and a collection that was absent is created empty: it holds
\* nothing but the records appended since.
C5_FieldsLicenseQuotaCapital ==
    /\ \A k \in 1..Len(fileData) : DOMAIN fileData[k] = {"license", "Quota"}
    /\ ~fileExists => fileData = <<>>
    /\ (fileExists /\ ~priorExists) => fileData = appended

C5_Witness ==
    /\ ~priorExists /\ fileExists
    /\ Len(fileData) >= 1
    /\ \E k \in 1..Len(outcomes) : outcomes[k].save = "error"

\* C6 as stated: when KEYS is missing or empty the run fails before any
\* iteration starts: no request is issued and no record is persisted.
C6_EmptyPoolFailsBeforeAnyRequest ==
    (~envSet \/ KEYS = <<>>) =>
        /\ requestCount = 0
        /\ appended = <<>>
        /\ pc \in {"import", "crashed"}

\* C7: appending preserves prior records: every step leaves the records already
\* in the collection in place and in order and adds at most one record, at the
\* end; after n successful persists the collection is the prior collection
\* followed by the n appended records in insertion order.
C7_AppendPreservesPrior ==
    /\ [](fileData = priorData \o appended)
    /\ [][ /\ Len(fileData') \in {Len(fileData), Len(fileData) + 1}
           /\ \A k \in 1..Len(fileData) : fileData'[k] = fileData[k]
           /\ (pc = "decide" /\ saveResult' = "saved")
                 => fileData' = fileData \o <<[Quota |-> quota, license |-> final_license]>>
         ]_vars

C7_Witness ==
    /\ priorExists /\ Len(priorData) >= 1
    /\ Len(appended) = 2
    /\ Len(fileData) = Len(priorData) + 2
    /\ fileData[Len(priorData) + 1] = appended[1]
    /\ fileData[Len(priorData) + 2] = appended[2]

IsLinkPatch(c) ==
    /\ c.verb = "PATCH"
    /\ c.path = UserPath(PrimaryId(i))
    /\ c.body = <<"referrer", StrOfInt(ReferralId(i))>>

IsReferralDelete(c) == c.verb = "DELETE" /\ c.path = UserPath(ReferralId(i))
IsPrimaryDelete(c) == c.verb = "DELETE" /\ c.path = UserPath(PrimaryId(i))

\* C8: in every iteration the DELETE of the referral account is issued only
\* after the PATCH that sets the primary account's referrer to the referral
\* account's id has been issued in the same iteration.
C8_ReferralDeleteAfterLink ==
    \A j \in 1..Len(calls) :
        IsReferralDelete(calls[j]) => \E k \in 1..(j - 1) : IsLinkPatch(calls[k])

C8_Witness ==
    /\ \E j \in 1..Len(calls) : IsReferralDelete(calls[j]) /\ calls[j].auth = TokenFor(ReferralId(i))
    /\ i >= 1

IsProbePut(c) ==
    /\ c.verb = "PUT"
    /\ c.path = AccountPath(PrimaryId(i))
    /\ c.body = <<"license", StrOfList(selected_key)>>

IsRevertPut(c) ==
    /\ c.verb = "PUT"
    /\ c.path = AccountPath(PrimaryId(i))
    /\ c.body = <<"license", initial_license>>

\* C9 as stated: whenever the probe PUT has been issued, the revert PUT with the
\* original license is issued after it in the same iteration.
C9_RevertAlwaysFollowsProbe ==
    pc = "pace" =>
        \A j \in 1..Len(calls) :
            IsProbePut(calls[j]) => \E k \in (j + 1)..Len(calls) : IsRevertPut(calls[k])

\* C9 amended: whenever the probe PUT has been issued and returned without
\* raising, the revert PUT with the original license is the very next request
\* of that iteration; a probe PUT is the last request issued only while the
\* revert is about to be issued or when the probe PUT itself raised.
C9_RevertFollowsReturnedProbe ==
    \A j \in 1..Len(calls) :
        IsProbePut(calls[j]) =>
            IF j < Len(calls)
            THEN IsRevertPut(calls[j + 1])
            ELSE \/ pc = "put_revert"
                 \/ pc \in {"except", "pace"} /\ failedStage = "put_probe"

C9_Witness ==
    /\ pc = "pace" /\ failedStage = "none"
    /\ \E j \in 1..(Len(calls) - 1) : IsProbePut(calls[j]) /\ IsRevertPut(calls[j + 1])

\* C10: in every iteration in which no stage raised, a DELETE has been issued for
\* the referral account and for the primary account before the pacing step,
\* eligible or not; and an iteration issues at most two registrations, the
\* first for the primary and the second for the referral account.
C10_BothDeletedBeforePacing ==
    /\ (pc = "pace" /\ failedStage = "none") =>
          /\ \E j \in 1..Len(calls) : IsReferralDelete(calls[j])
          /\ \E j \in 1..Len(calls) : IsPrimaryDelete(calls[j])
    /\ Cardinality({j \in 1..Len(calls) : calls[j].verb = "POST"}) <= 2
    /\ \A j \in 1..Len(calls) : calls[j].verb = "POST" => j <= 2

C10_Witness ==
    /\ pc = "pace" /\ failedStage = "none" /\ saveResult = "skipped"
    /\ \E j \in 1..Len(calls) : IsPrimaryDelete(calls[j])

\* the requests of one complete iteration, by verb and by path
ExpectedVerbs == <<"POST", "POST", "PATCH", "DELETE", "PUT", "PUT", "GET", "DELETE">>
ExpectedPaths ==
    <<RegPath, RegPath, UserPath(PrimaryId(i)), UserPath(ReferralId(i)),
      AccountPath(PrimaryId(i)), AccountPath(PrimaryId(i)), AccountPath(PrimaryId(i)),
      UserPath(PrimaryId(i))>>
InIteration == pc \in {StageOrder[k] : k \in 1..Len(StageOrder)} \cup {"except", "pace"}

\* C11: within one iteration the requests are issued in the order POST, POST,
\* PATCH, DELETE (referral), PUT (probe), PUT (revert), GET, DELETE (primary),
\* then the persistence decision: the requests issued so far are a prefix of
\* that list, a stage is reached only when every earlier stage has been issued
\* and has returned, the stage that raised is the last one issued, and the
\* decision is taken only after all eight.
C11_FixedStageOrder ==
    InIteration =>
        /\ Len(calls) <= Len(ExpectedVerbs)
        /\ \A j \in 1..Len(calls) :
              /\ calls[j].verb = ExpectedVerbs[j]
              /\ calls[j].path = ExpectedPaths[j]
        /\ Len(calls) >= 5 => IsProbePut(calls[5])
        /\ Len(calls) >= 6 => IsRevertPut(calls[6])
        /\ (failedStage = "none" /\ pc \notin {"except", "pace"})
              => Len(calls) = StageIndex(pc) - 1
        /\ failedStage # "none" => Len(calls) = StageIndex(failedStage) /\ saveResult = "none"
        /\ saveResult # "none" => Len(calls) = Len(ExpectedVerbs) /\ failedStage = "none"
        /\ (pc = "pace" /\ failedStage = "none")
              => Len(calls) = Len(ExpectedVerbs) /\ saveResult # "none"

C11_Witness ==
    /\ pc = "pace" /\ failedStage = "none" /\ saveResult = "saved"
    /\ Len(calls) = 8 /\ i >= 1

\* C12 as stated: the probe license sent in the first PUT is one of the
\* individual key strings of the configured pool.
C12_ProbeIsPoolElement ==
    \A j \in 1..Len(calls) :
        (InIteration /\ calls[j].verb = "PUT" /\ j = 5) =>
            \E k \in 1..Len(Split(KEYS, ",")) : calls[j].body = <<"license", Split(KEYS, ",")[k]>>

\* C13: if the referrer-link PATCH raises, the referral DELETE is not issued
\* and no later stage of that iteration is: the PATCH is the last request of
\* the iteration and nothing is persisted.
C13_FailedLinkAbortsIteration ==
    failedStage = "patch" =>
        /\ pc \in {"except", "pace"}
        /\ Len(calls) = 3
        /\ Last(calls).verb = "PATCH"
        /\ \A j \in 1..Len(calls) : calls[j].verb \notin {"DELETE", "PUT", "GET"}
        /\ saveResult = "none"
        /\ Len(appended) = Cardinality({k \in 1..Len(outcomes) : outcomes[k].save = "saved"})

C13_Witness ==
    /\ failedStage = "patch" /\ pc = "pace"
    /\ Last(calls).verb = "PATCH"

DeletesIssuedFor(id) == Cardinality({j \in 1..Len(deleteLog) : deleteLog[j] = id})

\* stages at which the DELETE of the referral / of the primary account has not
\* been issued yet
BeforeReferralDelete == {"reg_user", "reg_ref", "patch"}
BeforePrimaryDelete ==
    {"reg_user", "reg_ref", "patch", "del_ref", "put_probe", "put_revert", "get"}

\* C14: an aborted iteration issues no compensating cleanup: for every finished
\* iteration, an account whose DELETE had not been issued when the error
\* occurred has no DELETE issued for it at all, in that iteration or later, and
\* no account ever has more than one DELETE issued for it (a referral DELETE
\* that raised is not repeated).
C14_NoCompensatingCleanup ==
    /\ \A k \in 1..Len(outcomes) :
          /\ DeletesIssuedFor(PrimaryId(k - 1)) =
                (IF outcomes[k].failed \in BeforePrimaryDelete THEN 0 ELSE 1)
          /\ DeletesIssuedFor(ReferralId(k - 1)) =
                (IF outcomes[k].failed \in BeforeReferralDelete THEN 0 ELSE 1)
    /\ \A j \in 1..Len(deleteLog) :
          /\ deleteLog[j] \in 1..(2 * N)
          /\ DeletesIssuedFor(deleteLog[j]) = 1
    /\ (failedStage \in BeforePrimaryDelete /\ pc \in {"except", "pace"})
          => DeletesIssuedFor(PrimaryId(i)) = 0

C14_Witness ==
    /\ pc = "done" /\ N >= 2
    /\ outcomes[1].failed = "del_ref"
    /\ outcomes[2].failed = "none"
    /\ DeletesIssuedFor(PrimaryId(0)) = 0
    /\ DeletesIssuedFor(ReferralId(0)) = 1

CallsWithVerb(v) == Cardinality({j \in 1..Len(calls) : calls[j].verb = v})

\* C16: no request is ever retried: every iteration issues at most two POST,
\* one PATCH, two PUT, one GET and two DELETE requests, at most eight in all and
\* at most 8*N in the batch, and once a request has raised no further request
\* is issued in that iteration.
C16_NoRetry ==
    /\ [](/\ CallsWithVerb("POST") <= 2
          /\ CallsWithVerb("PATCH") <= 1
          /\ CallsWithVerb("PUT") <= 2
          /\ CallsWithVerb("GET") <= 1
          /\ CallsWithVerb("DELETE") <= 2
          /\ Len(calls) <= 8
          /\ requestCount <= 8 * Len(outcomes) + Len(calls)
          /\ requestCount <= 8 * N)
    /\ [][failedStage # "none" =>
            /\ requestCount' = requestCount
            /\ calls' = calls \/ calls' = <<>>
         ]_vars

C16_Witness ==
    /\ pc = "done" /\ N = 2
    /\ outcomes[1].failed = "get"
    /\ outcomes[2].failed = "none"
    /\ requestCount = 7 + 8

\* C17: the transport client is acquired once, before the first iteration and
\* before any request, is open throughout every iteration, and is released
\* once, after the last iteration; no request is issued while it is not open.
C17_ClientScopedOnce ==
    /\ [](/\ requestCount > 0 => client # "none"
          /\ InIteration => client = "open"
          /\ pc = "done" <=> client = "closed"
          /\ pc \in {"import", "main", "crashed"} => client = "none" /\ requestCount = 0)
    /\ [][/\ client' # client =>
               \/ client = "none" /\ client' = "open" /\ requestCount = 0 /\ outcomes = <<>>
               \/ client = "open" /\ client' = "closed" /\ Len(outcomes) = N
          /\ requestCount' # requestCount => client = "open" /\ client' = "open"
         ]_vars

C17_Witness ==
    /\ pc = "done" /\ client = "closed"
    /\ N = 3 /\ Len(outcomes) = 3
    /\ requestCount >= 3

\* C18: the response to a DELETE is not inspected: whatever status the remote
\* returns, success or an error response, the step goes on to the next stage
\* with the same locals, file and counters; only a DELETE that raised (no
\* response) aborts the iteration; and the persistence decision that follows
\* depends on the state read alone.
C18_DeleteResponseNotInspected ==
    /\ [][(pc \in {"del_ref", "del_user"} /\ deleteStatus' # 0) =>
            /\ pc' = NextStage(pc)
            /\ failedStage' = failedStage
            /\ UNCHANGED <<locals, file, saveResult, outcomes, delays, i>>
         ]_vars
    /\ [][(pc \in {"del_ref", "del_user"} /\ pc' = "except") => deleteStatus' = 0]_vars
    /\ [](deleteStatus # 0 => pc \in {"put_probe", "decide"} /\ failedStage = "none")
    /\ []((pc = "pace" /\ failedStage = "none") => (saveResult = "skipped" <=> ~ReadEligible))

C18_Witness ==
    /\ pc = "decide" /\ deleteStatus = 404
    /\ ReadEligible
    /\ IsPrimaryDelete(Last(calls))

\* C19: persistence happens only after the primary account's DELETE has
\* returned without raising: an iteration whose primary DELETE raised has
\* appended nothing, even when the state read was eligible, and a record is
\* only ever written when the primary DELETE is the last of the eight requests
\* and none of them raised.
C19_NoPersistAfterFailedDispose ==
    /\ failedStage = "del_user" =>
          /\ saveResult = "none"
          /\ Len(appended) = Cardinality({k \in 1..Len(outcomes) : outcomes[k].save = "saved"})
          /\ Len(fileData) = Len(priorData) + Len(appended)
    /\ saveResult = "saved" =>
          /\ failedStage = "none"
          /\ Len(calls) = 8
          /\ IsPrimaryDelete(Last(calls))
    /\ \A k \in 1..Len(outcomes) : outcomes[k].failed = "del_user" => outcomes[k].save = "none"

C19_Witness ==
    /\ failedStage = "del_user" /\ pc = "pace"
    /\ ReadEligible
    /\ saveResult = "none"

====
